---- MODULE Spec2Model ----
(***************************************************************************)
(* Model of unlock.py: an interactive script that lets an operator pick a  *)
(* vManage pod, opens a session on it (login, XSRF token, user list) and   *)
(* resets one user chosen from the list.                                   *)
(*                                                                         *)
(* The controller is an arbitrary HTTP peer: every request gets a response *)
(* drawn from a small set of status codes and bodies.  The operator is an  *)
(* arbitrary source of typed lines.                                        *)
(***************************************************************************)
EXTENDS Integers, Sequences, FiniteSets, TLC

(* ---------------------------- bounds ---------------------------------- *)
MaxPods == 2      \* longest "Pods" list read from pods.yaml
MaxUsers == 2     \* longest "data" list in a user-list response

(* --------------------------- constants -------------------------------- *)
HTTP_OK == 200
None == "None"
Statuses == {HTTP_OK, 403}
Cookies == {"JSESSIONID=a"}            \* response.cookies of a login
Tokens == {"tokA"}                      \* bodies of a token response
UserNames == {"netadmin", "admin"}
\* lines typed at a selection prompt
Selections ==
    { <<>>, <<"a">>, <<"0">>, <<"1">>, <<"2">>, <<"3">>, <<"4">>,
      <<" ","1">>, <<"-","1">>, <<"-","3">> }
\* lines typed at a confirmation question
Answers ==
    { <<"Y">>, <<"y","e","S">>, <<"n">>, <<"N","O">>, <<"y","e">> }

(* ------------------------- pure functions ----------------------------- *)
\* str.upper() on the characters an answer can contain
UpperChar(c) ==
    CASE c = "y" -> "Y"
      [] c = "e" -> "E"
      [] c = "s" -> "S"
      [] c = "n" -> "N"
      [] c = "o" -> "O"
      [] OTHER   -> c

Upper(s) == [i \in 1..Len(s) |-> UpperChar(s[i])]

IsYes(a) == Upper(a) = <<"Y">> \/ Upper(a) = <<"Y","E","S">>
IsNo(a) == Upper(a) = <<"N">> \/ Upper(a) = <<"N","O">>

\* int(): surrounding whitespace is stripped, one optional sign, then digits
RECURSIVE LStrip(_)
LStrip(s) == IF s # <<>> /\ Head(s) = " " THEN LStrip(Tail(s)) ELSE s

RECURSIVE RStrip(_)
RStrip(s) ==
    IF s # <<>> /\ s[Len(s)] = " " THEN RStrip(SubSeq(s, 1, Len(s) - 1)) ELSE s

Strip(s) == RStrip(LStrip(s))

IsDigit(c) == c \in {"0", "1", "2", "3", "4", "5", "6", "7", "8", "9"}

DigitVal(c) ==
    CASE c = "0" -> 0 [] c = "1" -> 1 [] c = "2" -> 2 [] c = "3" -> 3
      [] c = "4" -> 4 [] c = "5" -> 5 [] c = "6" -> 6 [] c = "7" -> 7
      [] c = "8" -> 8 [] c = "9" -> 9

HasSign(t) == t # <<>> /\ Head(t) \in {"-", "+"}
Digits(s) == LET t == Strip(s) IN IF HasSign(t) THEN Tail(t) ELSE t

\* int(s) does not raise ValueError
IsInt(s) == Digits(s) # <<>> /\ \A i \in 1..Len(Digits(s)) : IsDigit(Digits(s)[i])

RECURSIVE DecValue(_)
DecValue(d) ==
    IF d = <<>> THEN 0
    ELSE 10 * DecValue(SubSeq(d, 1, Len(d) - 1)) + DigitVal(d[Len(d)])

IntValue(s) ==
    LET t == Strip(s)
    IN  IF t # <<>> /\ Head(t) = "-" THEN 0 - DecValue(Digits(s)) ELSE DecValue(Digits(s))

\* list[i] of Python: 0-based, negative indices count from the end
InRange(list, i) == 0 - Len(list) <= i /\ i < Len(list)
PyGet(list, i) == IF i >= 0 THEN list[i + 1] ELSE list[Len(list) + i + 1]

\* variant: a name already listed is not listed again
RECURSIVE UserNamesOf_Dedup(_)
UserNamesOf_Dedup(data) ==
    IF data = <<>> THEN <<>>
    ELSE LET rest == UserNamesOf_Dedup(Tail(data))
         IN  IF \E i \in 1..Len(rest) : rest[i] = Head(data).userName
             THEN rest
             ELSE <<Head(data).userName>> \o rest

\* [user["userName"] for user in data]
RECURSIVE UserNamesOf(_)
UserNamesOf(data) ==
    IF data = <<>> THEN <<>>
    ELSE <<Head(data).userName>> \o UserNamesOf(Tail(data))

\* for i, user in enumerate(users): print(f"{i+1}. {user}")
Enumerate(list) == [i \in 1..Len(list) |-> [num |-> (i - 1) + 1, name |-> list[i]]]

(* --------------------------- data shapes ------------------------------ *)
Msg(kind, code, text, input) ==
    [kind |-> kind, code |-> code, text |-> text, input |-> input]
Say(kind) == Msg(kind, 0, "", <<>>)

Req(ep, cookies, token, userName) ==
    [ep |-> ep, cookies |-> cookies, token |-> token, userName |-> userName]

NoJson == [hasData |-> FALSE, data |-> <<>>]
Resp(status, text, cookies, json) ==
    [status |-> status, text |-> text, cookies |-> cookies, json |-> json]
NoResponse == Resp(0, "", "{}", NoJson)

PodList(n) == [i \in 1..n |-> <<10, 0, 0, i>>]

UserData == UNION {[1..n -> [userName : UserNames]] : n \in 0..MaxUsers}

LoginResponses ==
    {Resp(HTTP_OK, "", c, NoJson) : c \in Cookies}
        \cup {Resp(s, "Forbidden", "{}", NoJson) : s \in Statuses \ {HTTP_OK}}
TokenResponses ==
    {Resp(HTTP_OK, t, "{}", NoJson) : t \in Tokens}
        \cup {Resp(s, "Forbidden", "{}", NoJson) : s \in Statuses \ {HTTP_OK}}
UsersResponses ==
    {Resp(HTTP_OK, "json", "{}", [hasData |-> TRUE, data |-> d]) : d \in UserData}
        \cup {Resp(HTTP_OK, "<html>", "{}", NoJson)}
        \cup {Resp(s, "Forbidden", "{}", NoJson) : s \in Statuses \ {HTTP_OK}}
UnlockResponses ==
    {Resp(HTTP_OK, "", "{}", NoJson)}
        \cup {Resp(s, "Forbidden", "{}", NoJson) : s \in Statuses \ {HTTP_OK}}

(* ------------------------------ state --------------------------------- *)
VARIABLES
    pods,                   \* list returned by get_pod_ips
    pc,                     \* position of the script
    selection,              \* last line typed at a selection prompt
    verify,                 \* last line typed at a confirmation question
    pod,                    \* chosen pod address
    user,                   \* loop variable / chosen user name
    ip_address,             \* vManage.ip_address
    authentication_cookie,  \* vManage.authentication_cookie
    xsrf_token,             \* vManage.xsrf_token
    users,                  \* vManage.users
    sent,                   \* requests sent to the controller, in order
    response,               \* last response received
    loginStatus, tokenStatus, usersStatus, unlockStatus,
    out,                    \* lines printed by the last step
    shown                   \* numbered user list last displayed

session == <<ip_address, authentication_cookie, xsrf_token, users>>
statuses == <<loginStatus, tokenStatus, usersStatus, unlockStatus>>
vars == <<pods, pc, selection, verify, pod, user, session, sent, response,
          statuses, out, shown>>

Init ==
    /\ pods \in {PodList(n) : n \in 0..MaxPods}
    /\ pc = "pod_prompt"
    /\ selection = <<>>
    /\ verify = <<>>
    /\ pod = <<>>
    /\ user = None
    /\ ip_address = <<>>
    /\ authentication_cookie = None
    /\ xsrf_token = None
    /\ users = <<>>
    /\ sent = <<>>
    /\ response = NoResponse
    /\ loginStatus = 0 /\ tokenStatus = 0 /\ usersStatus = 0 /\ unlockStatus = 0
    /\ out = <<Say("You are about to unlock a user account in vManage.")>>
    /\ shown = <<>>

(* ----------------------------- actions -------------------------------- *)
\* one pass of the pod selection loop up to the confirmation question
PodSelect ==
    /\ pc = "pod_prompt"
    /\ \E s \in Selections :
        /\ selection' = s
        /\ IF ~IsInt(s)
           THEN /\ out' = <<Msg("is not a number!", 0, "", s)>>
                /\ UNCHANGED <<pc, pod>>
           ELSE IF ~InRange(pods, IntValue(s) - 1)
           THEN /\ out' = <<Msg("is not a valid pod number!", 0, "", s),
                            Say("Please recheck your Pod number")>>
                /\ UNCHANGED <<pc, pod>>
           ELSE /\ pod' = PyGet(pods, IntValue(s) - 1)
                /\ pc' = "pod_confirm"
                /\ out' = <<>>
    /\ UNCHANGED <<pods, verify, user, session, sent, response, statuses, shown>>

\* answer to "You have selected pod ... Is that correct (Y/N)?"
PodConfirm ==
    /\ pc = "pod_confirm"
    /\ \E a \in Answers :
        /\ verify' = a
        /\ IF IsYes(a) THEN pc' = "connect" /\ out' = <<>>
           ELSE IF IsNo(a) THEN pc' = "pod_prompt" /\ out' = <<>>
           ELSE pc' = "pod_prompt" /\ out' = <<Say("Not a valid option.")>>
    /\ UNCHANGED <<pods, selection, pod, user, session, sent, response,
                   statuses, shown>>

\* vManage(pod, "admin", PW): the field assignments of __init__
Connect ==
    /\ pc = "connect"
    /\ ip_address' = pod
    /\ out' = <<Say("******"), Say("Your are about to connect to pod")>>
    /\ pc' = "get_cookie"
    /\ UNCHANGED <<pods, selection, verify, pod, user, authentication_cookie,
                   xsrf_token, users, sent, response, statuses, shown>>

\* variant: a failed login is tried again
get_cookie_Retry ==
    /\ pc = "get_cookie"
    /\ \E r \in LoginResponses :
        /\ sent' = Append(sent, Req("login", None, None, None))
        /\ response' = r
        /\ loginStatus' = r.status
        /\ IF r.status # HTTP_OK
           THEN /\ out' = <<Say("Authenticating..."),
                            Msg("Response status code", r.status, "", <<>>),
                            Msg("Error", 0, r.text, <<>>)>>
                /\ UNCHANGED <<authentication_cookie, pc>>
           ELSE /\ out' = <<Say("Authenticating..."),
                            Msg("Response status code", r.status, "", <<>>)>>
                /\ authentication_cookie' = r.cookies
                /\ pc' = "get_xsrf_token"
    /\ UNCHANGED <<pods, selection, verify, pod, user, ip_address, xsrf_token,
                   users, tokenStatus, usersStatus, unlockStatus, shown>>

get_cookie ==
    /\ pc = "get_cookie"
    /\ \E r \in LoginResponses :
        /\ sent' = Append(sent, Req("login", None, None, None))
        /\ response' = r
        /\ loginStatus' = r.status
        /\ IF r.status # HTTP_OK
           THEN /\ out' = <<Say("Authenticating..."),
                            Msg("Response status code", r.status, "", <<>>),
                            Msg("Error", 0, r.text, <<>>)>>
                /\ UNCHANGED authentication_cookie
           ELSE /\ out' = <<Say("Authenticating..."),
                            Msg("Response status code", r.status, "", <<>>)>>
                /\ authentication_cookie' = r.cookies
    /\ pc' = "get_xsrf_token"
    /\ UNCHANGED <<pods, selection, verify, pod, user, ip_address, xsrf_token,
                   users, tokenStatus, usersStatus, unlockStatus, shown>>

\* variant: the body of the response is stored whatever its status
get_xsrf_token_Always ==
    /\ pc = "get_xsrf_token"
    /\ \E r \in TokenResponses :
        /\ sent' = Append(sent, Req("token", authentication_cookie, None, None))
        /\ response' = r
        /\ tokenStatus' = r.status
        /\ IF r.status # HTTP_OK
           THEN out' = <<Say("Requesting XSRF token..."),
                         Msg("Response status code", r.status, "", <<>>),
                         Msg("Error", 0, r.text, <<>>)>>
           ELSE out' = <<Say("Requesting XSRF token..."),
                         Msg("Response status code", r.status, "", <<>>)>>
        /\ xsrf_token' = r.text
    /\ pc' = "get_users"
    /\ UNCHANGED <<pods, selection, verify, pod, user, ip_address,
                   authentication_cookie, users, loginStatus, usersStatus,
                   unlockStatus, shown>>

get_xsrf_token ==
    /\ pc = "get_xsrf_token"
    /\ \E r \in TokenResponses :
        /\ sent' = Append(sent, Req("token", authentication_cookie, None, None))
        /\ response' = r
        /\ tokenStatus' = r.status
        /\ IF r.status # HTTP_OK
           THEN /\ out' = <<Say("Requesting XSRF token..."),
                            Msg("Response status code", r.status, "", <<>>),
                            Msg("Error", 0, r.text, <<>>)>>
                /\ UNCHANGED xsrf_token
           ELSE /\ out' = <<Say("Requesting XSRF token..."),
                            Msg("Response status code", r.status, "", <<>>)>>
                /\ xsrf_token' = r.text
    /\ pc' = "get_users"
    /\ UNCHANGED <<pods, selection, verify, pod, user, ip_address,
                   authentication_cookie, users, loginStatus, usersStatus,
                   unlockStatus, shown>>

\* variant: the extracted names are not stored in the session
get_users_Forget ==
    /\ pc = "get_users"
    /\ \E r \in UsersResponses :
        /\ sent' = Append(sent, Req("users", authentication_cookie, xsrf_token, None))
        /\ response' = r
        /\ usersStatus' = r.status
        /\ IF r.status # HTTP_OK
           THEN /\ out' = <<Msg("Error", 0, r.text, <<>>), Say("******")>>
                /\ pc' = "user_prompt"
           ELSE IF ~r.json.hasData
           THEN /\ out' = <<Say("Traceback")>>
                /\ pc' = "crashed"
           ELSE /\ out' = <<Say("******")>>
                /\ pc' = "user_prompt"
    /\ UNCHANGED <<pods, selection, verify, pod, user, ip_address, users,
                   authentication_cookie, xsrf_token, loginStatus, tokenStatus,
                   unlockStatus, shown>>

\* get_users, then the return of the constructor into the script
get_users ==
    /\ pc = "get_users"
    /\ \E r \in UsersResponses :
        /\ sent' = Append(sent, Req("users", authentication_cookie, xsrf_token, None))
        /\ response' = r
        /\ usersStatus' = r.status
        /\ IF r.status # HTTP_OK
           THEN /\ out' = <<Msg("Error", 0, r.text, <<>>), Say("******")>>
                /\ pc' = "user_prompt"
                /\ UNCHANGED users
           ELSE IF ~r.json.hasData
           THEN \* response.json()["data"] raises, nothing catches it
                /\ out' = <<Say("Traceback")>>
                /\ pc' = "crashed"
                /\ UNCHANGED users
           ELSE /\ users' = UserNamesOf(r.json.data)
                /\ out' = <<Say("******")>>
                /\ pc' = "user_prompt"
    /\ UNCHANGED <<pods, selection, verify, pod, user, ip_address,
                   authentication_cookie, xsrf_token, loginStatus, tokenStatus,
                   unlockStatus, shown>>

\* one pass of the user selection loop up to the confirmation question
UserSelect ==
    /\ pc = "user_prompt"
    /\ shown' = Enumerate(users)
    /\ \E s \in Selections :
        /\ selection' = s
        /\ IF ~IsInt(s)
           THEN /\ out' = <<Say("The users of pod"),
                            Msg("is not a number!", 0, "", s)>>
                /\ user' = IF users = <<>> THEN user ELSE users[Len(users)]
                /\ UNCHANGED pc
           ELSE IF ~InRange(users, IntValue(s) - 1)
           THEN /\ out' = <<Say("The users of pod"),
                            Msg("is not a valid user number!", 0, "", s),
                            Say("Please recheck your User's number")>>
                /\ user' = IF users = <<>> THEN user ELSE users[Len(users)]
                /\ UNCHANGED pc
           ELSE /\ user' = PyGet(users, IntValue(s) - 1)
                /\ pc' = "user_confirm"
                /\ out' = <<Say("The users of pod")>>
    /\ UNCHANGED <<pods, verify, pod, session, sent, response, statuses>>

\* variant: every answer other than N or NO confirms
UserConfirm_Lax ==
    /\ pc = "user_confirm"
    /\ \E a \in Answers :
        /\ verify' = a
        /\ IF IsNo(a) THEN pc' = "user_prompt" /\ out' = <<>>
           ELSE pc' = "unlock" /\ out' = <<Say("******"), Say("Starting to unlock...")>>
    /\ UNCHANGED <<pods, selection, pod, user, session, sent, response,
                   statuses, shown>>

\* answer to "You are about to unlock user ... Is that correct (Y/N)?"
UserConfirm ==
    /\ pc = "user_confirm"
    /\ \E a \in Answers :
        /\ verify' = a
        /\ IF IsYes(a)
           THEN pc' = "unlock" /\ out' = <<Say("******"), Say("Starting to unlock...")>>
           ELSE IF IsNo(a) THEN pc' = "user_prompt" /\ out' = <<>>
           ELSE pc' = "user_prompt" /\ out' = <<Say("Not a valid option.")>>
    /\ UNCHANGED <<pods, selection, pod, user, session, sent, response,
                   statuses, shown>>

unlock_user ==
    /\ pc = "unlock"
    /\ \E r \in UnlockResponses :
        /\ sent' = Append(sent, Req("reset", authentication_cookie, xsrf_token, user))
        /\ response' = r
        /\ unlockStatus' = r.status
        /\ IF r.status = HTTP_OK
           THEN out' = <<Msg("unlocked successfully!", 0, user, <<>>)>>
           ELSE out' = <<Msg("Status code", r.status, "", <<>>),
                         Msg("Error description", 0, r.text, <<>>)>>
    /\ pc' = "done"
    /\ UNCHANGED <<pods, selection, verify, pod, user, session, loginStatus,
                   tokenStatus, usersStatus, shown>>

Next ==
    \/ PodSelect
    \/ PodConfirm
    \/ Connect
    \/ get_cookie
    \/ get_xsrf_token
    \/ get_users
    \/ UserSelect
    \/ UserConfirm
    \/ unlock_user

Spec == Init /\ [][Next]_vars

(* ------------------------- derived notions ---------------------------- *)
Endpoints == [i \in 1..Len(sent) |-> sent[i].ep]
ResetRequests == {i \in 1..Len(sent) : sent[i].ep = "reset"}
Printed(kind) == \E i \in 1..Len(out) : out[i].kind = kind
HasMsg(o, kind, text) == \E i \in 1..Len(o) : o[i].kind = kind /\ o[i].text = text
PrintedText(kind, text) == HasMsg(out, kind, text)
Failed(status) == status # 0 /\ status # HTTP_OK
\* the typed line is not a number of the displayed list
Malformed(s, list) == ~IsInt(s) \/ IntValue(s) < 1 \/ IntValue(s) > Len(list)

(* ------------------------------ claims -------------------------------- *)

\* C1: whenever the user reset request is sent, the session's authentication
\* cookie and its XSRF token are both populated (not None), a successful
\* login and a successful token fetch having happened earlier in the run.
C1_UnlockRequiresCredentials ==
    \A i \in ResetRequests :
        /\ sent[i].cookies # None /\ sent[i].token # None
        /\ authentication_cookie # None /\ xsrf_token # None
        /\ loginStatus = HTTP_OK /\ tokenStatus = HTTP_OK

\* C2: "User <name> unlocked successfully!" is printed only if the login
\* request of the run returned 200; a failed login is reported with its
\* status and body.
C2_SuccessOnlyAfterLogin ==
    /\ Printed("unlocked successfully!") => loginStatus = HTTP_OK
    /\ (pc = "get_xsrf_token" /\ Failed(loginStatus)) =>
           /\ Printed("Response status code")
           /\ PrintedText("Error", response.text)

\* C3: a non-200 answer to the login, the token fetch or the user listing
\* aborts the run: it is the last request sent to the controller.
C3_FailureAborts ==
    /\ Failed(loginStatus) => Len(sent) = 1
    /\ Failed(tokenStatus) => Len(sent) = 2
    /\ Failed(usersStatus) => Len(sent) = 3

\* C4: the pod prompt proceeds to the confirmation question exactly when the
\* typed line denotes an integer k with 1 <= k <= N, and the chosen pod is
\* then the k-th entry of the pod list.
C4_ValidPodSelections ==
    [][pc = "pod_prompt" =>
          /\ (pc' = "pod_confirm") <=> ~Malformed(selection', pods)
          /\ (pc' = "pod_confirm") => pod' = pods[IntValue(selection')]]_vars

\* C5: a malformed line (not a number, or a number outside the displayed
\* list) typed at the pod prompt or at the user prompt never advances: a
\* diagnostic is printed and the same question is asked again.
C5_MalformedReprompts ==
    [][/\ (pc = "pod_prompt" /\ Malformed(selection', pods)) =>
              /\ pc' = "pod_prompt"
              /\ Printed("is not a number!")' \/ Printed("is not a valid pod number!")'
       /\ (pc = "user_prompt" /\ Malformed(selection', users)) =>
              /\ pc' = "user_prompt"
              /\ Printed("is not a number!")' \/ Printed("is not a valid user number!")'
      ]_vars

\* the operator of C6: a line is eventually typed at every prompt, and
\* whenever netadmin is offered often enough it is selected and confirmed;
\* the script itself runs on and every request is answered
SelectNetadmin == UserSelect /\ pc' = "user_confirm" /\ user' = "netadmin"
ConfirmNetadmin == UserConfirm /\ user = "netadmin" /\ pc' = "unlock"

Fairness ==
    /\ WF_vars(Next)
    /\ SF_vars(SelectNetadmin) /\ SF_vars(ConfirmNetadmin)

FairSpec == Init /\ [][Next]_vars /\ Fairness

ControllerAccepts ==
    ~Failed(loginStatus) /\ ~Failed(tokenStatus) /\ ~Failed(unlockStatus)
PodConfirmed == pc = "connect"
OnlyNetadminConfirmed == pc = "unlock" => user = "netadmin"
NetadminListed ==
    pc = "user_prompt" =>
        /\ response.status = HTTP_OK /\ response.json.hasData
        /\ \E i \in 1..Len(response.json.data) :
               response.json.data[i].userName = "netadmin"
WellFormedListing == pc # "crashed"
NetadminUnlocked ==
    pc = "done" /\ PrintedText("unlocked successfully!", "netadmin")

\* C6 (as stated): with 200 answers to login, token fetch and unlock, and an
\* operator who eventually confirms a pod and picks netadmin whenever it is
\* offered, the run eventually prints "User netadmin unlocked successfully!".
C6_EventuallyUnlocked ==
    ([](ControllerAccepts /\ OnlyNetadminConfirmed) /\ <>PodConfirmed)
        => <>NetadminUnlocked

\* C6 (amended): the same, when moreover the user-list request is answered
\* 200 with a well-formed data list that contains netadmin.
C6_EventuallyUnlockedWhenListed ==
    ([](ControllerAccepts /\ OnlyNetadminConfirmed
            /\ NetadminListed /\ WellFormedListing) /\ <>PodConfirmed)
        => <>NetadminUnlocked

C6_Witness == NetadminUnlocked /\ ControllerAccepts /\ usersStatus = HTTP_OK

\* C7: the four requests are sent at most once each and in the order login,
\* token, users, reset; the session is constructed only after a confirmed
\* pod selection and the reset is sent only after a confirmed user selection.
RequestOrder == <<"login", "token", "users", "reset">>
C7_RequestsOnceInOrder ==
    /\ [](\E n \in 0..Len(RequestOrder) : Endpoints = SubSeq(RequestOrder, 1, n))
    /\ [][/\ (ip_address' # ip_address \/ (sent = <<>> /\ sent' # <<>>)) =>
                 pc \in {"connect", "get_cookie"}
          /\ (pc' = "connect" /\ pc # "connect") =>
                 /\ pc = "pod_confirm"
                 /\ Upper(verify') \in {<<"Y">>, <<"Y", "E", "S">>}
          /\ (ResetRequests' # {} /\ ResetRequests = {}) => pc = "unlock"
          /\ (pc' = "unlock" /\ pc # "unlock") =>
                 /\ pc = "user_confirm"
                 /\ Upper(verify') \in {<<"Y">>, <<"Y", "E", "S">>}
         ]_vars

C7_Witness == pc = "done" /\ Endpoints = RequestOrder /\ Failed(loginStatus)

\* C8: after a 200 user-list response carrying a data sequence, the session's
\* user list is the sequence of userName values, same length and order, and
\* the numbered list shown maps number i to the i-th record.
C8_UserListPreserved ==
    (pc \in {"user_prompt", "user_confirm", "unlock"} /\ usersStatus = HTTP_OK) =>
        LET data == response.json.data
        IN  /\ Len(users) = Len(data)
            /\ \A i \in 1..Len(data) : users[i] = data[i].userName
            /\ pc # "user_prompt" =>
                   /\ Len(shown) = Len(data)
                   /\ \A i \in 1..Len(data) :
                          shown[i].num = i /\ shown[i].name = data[i].userName
            /\ (pc = "user_confirm" /\ ~Malformed(selection, users)) =>
                   user = data[IntValue(selection)].userName

C8_Witness ==
    /\ pc = "user_confirm" /\ usersStatus = HTTP_OK
    /\ Len(users) = 2 /\ users[1] = users[2] /\ selection = <<"2">>

\* C9 (as stated): the cookie, the token and the user list are each set
\* exactly when the response status of their request is 200; otherwise the
\* field keeps its value, no other session field changes and the error body
\* is printed.
C9_SetExactlyOn200 ==
    [][/\ pc = "get_cookie" =>
              /\ IF loginStatus' = HTTP_OK
                 THEN authentication_cookie' = response'.cookies
                 ELSE /\ authentication_cookie' = authentication_cookie
                      /\ HasMsg(out', "Error", response'.text)
              /\ UNCHANGED <<ip_address, xsrf_token, users>>
       /\ pc = "get_xsrf_token" =>
              /\ IF tokenStatus' = HTTP_OK
                 THEN xsrf_token' = response'.text
                 ELSE /\ xsrf_token' = xsrf_token
                      /\ HasMsg(out', "Error", response'.text)
              /\ UNCHANGED <<ip_address, authentication_cookie, users>>
       /\ pc = "get_users" =>
              /\ IF usersStatus' = HTTP_OK
                 THEN \* the assignment of the list has run
                      /\ pc' = "user_prompt"
                      /\ users' = UserNamesOf(response'.json.data)
                 ELSE /\ users' = users
                      /\ HasMsg(out', "Error", response'.text)
              /\ UNCHANGED <<ip_address, authentication_cookie, xsrf_token>>
      ]_vars

\* C9 (amended): as above, but the user list is replaced exactly when the
\* status is 200 and the body carries a data list; a 200 response without
\* one ends the run in an uncaught exception with the list unchanged.
C9_SetExactlyOnSuccess ==
    [][/\ pc = "get_cookie" =>
              /\ IF loginStatus' = HTTP_OK
                 THEN authentication_cookie' = response'.cookies
                 ELSE /\ authentication_cookie' = authentication_cookie
                      /\ HasMsg(out', "Error", response'.text)
              /\ UNCHANGED <<ip_address, xsrf_token, users>>
       /\ pc = "get_xsrf_token" =>
              /\ IF tokenStatus' = HTTP_OK
                 THEN xsrf_token' = response'.text
                 ELSE /\ xsrf_token' = xsrf_token
                      /\ HasMsg(out', "Error", response'.text)
              /\ UNCHANGED <<ip_address, authentication_cookie, users>>
       /\ pc = "get_users" =>
              /\ IF usersStatus' = HTTP_OK /\ response'.json.hasData
                 THEN /\ pc' = "user_prompt"
                      /\ users' = UserNamesOf(response'.json.data)
                 ELSE IF usersStatus' = HTTP_OK
                 THEN pc' = "crashed" /\ users' = users
                 ELSE /\ users' = users
                      /\ HasMsg(out', "Error", response'.text)
              /\ UNCHANGED <<ip_address, authentication_cookie, xsrf_token>>
      ]_vars

C9_Witness ==
    /\ pc = "user_prompt" /\ loginStatus = HTTP_OK /\ Failed(tokenStatus)
    /\ authentication_cookie # None /\ xsrf_token = None /\ users # <<>>

\* C10: the reset is sent only after Y or YES (any letter case) was answered
\* to the user confirmation question, for the user named in that question,
\* who is an element of the session's user list; any other answer sends
\* nothing and returns to the selection prompt; with an empty user list no
\* reset is ever sent.
C10_ResetOnlyWhenConfirmed ==
    /\ [](users = <<>> => ResetRequests = {})
    /\ [][/\ (ResetRequests' # {} /\ ResetRequests = {}) =>
                 /\ Upper(verify) \in {<<"Y">>, <<"Y", "E", "S">>}
                 /\ sent'[Len(sent')].userName = user
                 /\ \E i \in 1..Len(users) : users[i] = user
          /\ pc = "user_confirm" =>
                 IF Upper(verify') \in {<<"Y">>, <<"Y", "E", "S">>}
                 THEN pc' = "unlock" /\ user' = user
                 ELSE pc' = "user_prompt" /\ sent' = sent
         ]_vars

C10_Witness ==
    /\ pc = "done" /\ ResetRequests # {} /\ verify = <<"y", "e", "S">>
    /\ \E i \in 1..Len(users) : users[i] = user

====
